---------------------------- MODULE Spec2Model ----------------------------
(***************************************************************************)
(* A model of picoclaw's MCP client subsystem (package mcp):               *)
(*   - STDIOTransport (pkg/mcp/transport/stdio.go): the child process, its *)
(*     stdin/stdout pipes, the transport mutex and the closed flag;        *)
(*   - Client (the session client): requestID, initialized, the tool       *)
(*     cache and the session mutex;                                        *)
(*   - ToolWrapper (pkg/mcp/wrapper.go): the adapter's Name and Execute;   *)
(*   - Manager (pkg/mcp/registry.go): Start, connectServer, registerTools, *)
(*     Stop, GetClient, ListClients.                                       *)
(* Every Go function that takes a lock or blocks is split at exactly those *)
(* points, so that the interleavings of goroutines are the model's         *)
(* interleavings.  Strings are sequences of one-character strings, texts   *)
(* built with fmt are sequences of tokens.                                 *)
(***************************************************************************)
EXTENDS Integers, Sequences, FiniteSets, TLC

VARIABLES
    \* Client (one entry per client ever created)
    requestID,      \* Client.requestID
    initialized,    \* Client.initialized
    tools,          \* Client.tools, the tool cache
    cmu,            \* Client.mu: the thread holding it, or NoThread
    \* STDIOTransport
    closed,         \* STDIOTransport.closed
    tmu,            \* STDIOTransport.mu: the thread holding it, or NoThread
    \* the child process and its pipes
    proc,           \* "none" | "failed" | "running" | "exited"
    stdinOpen,      \* the write end of the child's stdin is open
    wire,           \* the frames written to the child's stdin, in order
    srvRead,        \* how many frames of wire the child has consumed
    out,            \* frames the child wrote to stdout that are not read yet
    notifs,         \* unsolicited notifications the child has written so far
    \* goroutines
    pc,             \* where each thread is inside a Client operation
    call,           \* the Client operation a thread is in
    ret,            \* what the step just taken returned, when it ended a Client operation
    mres,           \* whether the manager goroutine's last Client call succeeded
    \* Manager
    cfg,            \* Manager.cfg.MCP.Servers
    mclients,       \* Manager.clients: name -> client
    registered,     \* the wrappers handed to registry.Register, in order
    mmu,            \* Manager.mu: "free" | "w" | "r"
    mpc,            \* where the manager goroutine is inside Start / Stop
    midx,           \* Start's loop index into cfg
    mcur,           \* the client connectServer is working on
    nclients,       \* how many clients NewClient has created
    owner,          \* the descriptor (index into cfg) each client was made for
    mops,           \* <<Start calls, Stop calls>> made so far
    mleft,          \* Stop's range loop: the names still to visit
    \* history
    everInit,       \* an Initialize of the client has succeeded
    alias,          \* per goroutine: the client whose cache array it got from GetTools
    handshakes,     \* ids of the initialize requests answered with a decodable result
    closeRet,       \* a Client.Close of the client has returned
    stdinCloses,    \* how often the transport closed the child's stdin
    waits,          \* what cmd.Wait returned, each time the transport waited on the child
    startEmpty,     \* the Start in progress (or last finished) began with no sessions
    mbase,          \* nclients when that Start began
    mheld,          \* the clients Manager.clients held when the last Stop began
    mret            \* what the manager's last Start / Stop returned

clientVars == <<requestID, initialized, tools, cmu>>
transportVars == <<closed, tmu>>
childVars == <<proc, stdinOpen, wire, srvRead, out, notifs>>
threadVars == <<pc, call, mres>>
mgrVars == <<cfg, mclients, registered, mmu, mpc, midx, mcur, nclients, owner, mops,
             mleft, startEmpty, mbase, mheld, mret>>
histVars == <<everInit, alias, handshakes, closeRet, stdinCloses, waits>>
vars == <<clientVars, transportVars, childVars, threadVars, ret, mgrVars, histVars>>

(***************************************************************************)
(* Bounds of the model.                                                    *)
(***************************************************************************)
MaxReq == 3          \* requests (requestID values) per session
NumCallers == 2      \* concurrent callers of one session
MaxNotif == 1        \* unsolicited notifications a child writes
MaxClients == 3      \* clients the manager creates
MaxStarts == 1       \* Start calls on the manager
MaxStops == 2        \* Stop calls on the manager

NoThread == -1
NoClient == 0
MgrThread == 0
Callers == 1..NumCallers
Threads == {MgrThread} \cup Callers
Clients == 1..MaxClients

(***************************************************************************)
(* protocol.go: method names.                                              *)
(***************************************************************************)
MethodInitialize == "initialize"
MethodInitialized == "notifications/initialized"
MethodShutdown == "shutdown"
MethodListTools == "tools/list"
MethodCallTool == "tools/call"

(***************************************************************************)
(* Strings are sequences of characters.                                    *)
(***************************************************************************)
ToolA == <<"c">>
ToolB == <<"b", "_", "c">>
ToolNames == {ToolA, ToolB}
NoTool == <<>>

\* types.go: MCPTool (the input schema is opaque and carried along)
MCPTool(n) == [name |-> n, inputSchema |-> "schema"]
ToolLists == { <<>>, <<MCPTool(ToolA)>>, <<MCPTool(ToolA), MCPTool(ToolB)>> }

(***************************************************************************)
(* Frames.  A request the client writes: the map built in Initialize,      *)
(* ListTools, CallTool, Shutdown; the initialized notification has no id.  *)
(***************************************************************************)
Request(id, method, tool) == [hasId |-> TRUE, id |-> id, method |-> method, tool |-> tool]
\* (mutation of Notification: the frame carries an id member)
NotificationWithId(method) == [hasId |-> TRUE, id |-> 0, method |-> method, tool |-> NoTool]

Notification(method) == [hasId |-> FALSE, id |-> 0, method |-> method, tool |-> NoTool]

\* A frame the child writes.  kind: "result" (a result member), "error" (an
\* error member), "notif" (neither: a notification), "garbage" (not JSON).
Frame(kind, id, shape, tl, content, isErr, msg) ==
    [kind |-> kind, id |-> id, shape |-> shape, tools |-> tl, content |-> content,
     isError |-> isErr, message |-> msg, data |-> "", jsonrpc |-> "2.0"]

\* content blocks of a tool call result, as decoded into []interface{}
TextBlock(txt) == [type |-> "text", text |-> txt]
ImageBlock == [type |-> "image", text |-> "png"]
ResourceBlock == [type |-> "resource", text |-> "r"]
CallContents == { <<>>, <<TextBlock("t1"), ImageBlock, TextBlock("t2")>> }

ResultFrames(req) ==
    IF req.method = MethodInitialize
    THEN { Frame("result", req.id, s, <<>>, <<>>, FALSE, "") : s \in {"object", "other"} }
    ELSE IF req.method = MethodListTools
    THEN { Frame("result", req.id, "object", tl, <<>>, FALSE, "") : tl \in ToolLists }
         \cup { Frame("result", req.id, "other", <<>>, <<>>, FALSE, "") }
    ELSE IF req.method = MethodCallTool
    THEN { Frame("result", req.id, "object", <<>>, ct, e, "") :
               ct \in CallContents, e \in BOOLEAN }
    ELSE { Frame("result", req.id, "object", <<>>, <<>>, FALSE, "") }

ErrorFrame(req) == Frame("error", req.id, "none", <<>>, <<>>, FALSE, "Invalid params")
\* an error object with a data member ({"field":"name"}, as fmt renders it)
ErrorData == "map[field:name]"
ErrorDataFrame(req) == [ErrorFrame(req) EXCEPT !.data = ErrorData]
ErrorFrames(req) ==
    IF req.method = MethodCallTool THEN {ErrorFrame(req), ErrorDataFrame(req)}
    ELSE {ErrorFrame(req)}

\* JSONRPCResponse.GetError: the message, with the data when there is any
GetError(f) == IF f.data = "" THEN <<f.message>> ELSE <<f.message, f.data>>

GarbageFrame == Frame("garbage", 0, "none", <<>>, <<>>, FALSE, "")
NotifFrame == Frame("notif", 0, "none", <<>>, <<>>, FALSE, "")

NoFrame == Frame("none", 0, "none", <<>>, <<>>, FALSE, "")

\* a well-formed result in a frame whose jsonrpc member is not "2.0"
WrongVersionFrames(req) ==
    IF req.method = MethodCallTool
    THEN { [Frame("result", req.id, "object", <<>>, <<TextBlock("t1")>>, FALSE, "")
               EXCEPT !.jsonrpc = "1.0"] }
    ELSE {}

\* what a child may answer to a request
Responses(req) ==
    ResultFrames(req) \cup ErrorFrames(req) \cup {GarbageFrame} \cup WrongVersionFrames(req)


(***************************************************************************)
(* Texts built with fmt.Errorf / fmt.Sprintf are sequences of tokens.      *)
(***************************************************************************)
ErrNotInitialized == <<"client not initialized">>
ErrTransportClosed == <<"transport is closed">>
ErrWrite == <<"failed to write to stdin">>
ErrEOF == <<"MCP server closed connection">>
ErrRead == <<"failed to read from stdout">>
ErrUnmarshalResponse == <<"failed to unmarshal response">>
ErrUnmarshalResult == <<"unexpected end of JSON input">>
ErrAlreadyStarted == <<"failed to start MCP server", "exec: already started">>
ErrSpawn == <<"failed to start MCP server", "executable file not found">>
NoErr == <<>>

Wrap(prefix, err) == <<prefix>> \o err

(***************************************************************************)
(* Client operations and the method each one sends.                        *)
(***************************************************************************)
RequestOps == {"Initialize", "ListTools", "CallTool", "Shutdown"}
GatedOps == {"ListTools", "CallTool"}
RoundTripOps == {"Initialize", "ListTools", "CallTool"}
ClientOps == RequestOps \cup {"Connect", "Close"}

MethodOf(op) ==
    CASE op = "Initialize" -> MethodInitialize
      [] op = "ListTools" -> MethodListTools
      [] op = "CallTool" -> MethodCallTool
      [] op = "Shutdown" -> MethodShutdown

SendPrefix(op) ==
    CASE op = "Initialize" -> "failed to send initialize"
      [] op = "ListTools" -> "failed to send list_tools"
      [] OTHER -> "failed to send tools/call"

ReceivePrefix(op) ==
    CASE op = "Initialize" -> "failed to receive initialize response"
      [] op = "ListTools" -> "failed to receive list_tools response"
      [] OTHER -> "failed to receive tools/call response"

RpcErrorPrefix(op) ==
    CASE op = "Initialize" -> "initialize error"
      [] op = "ListTools" -> "list_tools error"
      [] OTHER -> "tools/call error"

ResultPrefix(op) ==
    CASE op = "Initialize" -> "failed to unmarshal initialize result"
      [] op = "ListTools" -> "failed to unmarshal list_tools result"
      [] OTHER -> "failed to unmarshal tools/call result"

NoCall == [op |-> "none", c |-> NoClient, tool |-> NoTool, late |-> FALSE,
           cancelled |-> FALSE]
NoToolResult == [isError |-> FALSE, text |-> <<>>]
NoRet == [op |-> "none", c |-> NoClient, tool |-> NoTool, ok |-> FALSE, val |-> <<>>,
          result |-> NoToolResult, late |-> FALSE, frame |-> NoFrame]

(***************************************************************************)
(* types.go: ToolCallResult.GetText, over the decoded content blocks.      *)
(***************************************************************************)
\* ToolCallResult.UnmarshalJSON of a result of shape "string" (content is the
\* string), "array" (content is the blocks) or "object" (a content member and
\* isError); anything else leaves the result empty.  It never fails.  An array
\* item becomes a typed value, an item of an object stays a raw map.
TypedItem(b) ==
    [form |-> IF b.type = "text" THEN "TextContent"
              ELSE IF b.type = "image" THEN "ImageContent"
              ELSE IF b.type = "resource" THEN "ResourceContent"
              ELSE "map",
     type |-> b.type, text |-> b.text]
RawItem(b) == [form |-> "map", type |-> b.type, text |-> b.text]

UnmarshalJSON(f) ==
    CASE f.shape = "string" ->
            [Content |-> <<[form |-> "TextContent", type |-> "text", text |-> f.content]>>,
             IsError |-> FALSE]
      [] f.shape = "array" ->
            [Content |-> [i \in 1..Len(f.content) |-> TypedItem(f.content[i])],
             IsError |-> FALSE]
      [] f.shape = "object" ->
            [Content |-> [i \in 1..Len(f.content) |-> RawItem(f.content[i])],
             IsError |-> f.isError]
      [] OTHER -> [Content |-> <<>>, IsError |-> FALSE]

\* (mutation of IsTextItem: only the typed form is taken)
TypedTextOnly(x) == x.form = "TextContent"

\* the two forms GetText writes: a TextContent, a map with type "text"
IsTextItem(x) == x.form = "TextContent" \/ (x.form = "map" /\ x.type = "text")

RECURSIVE GetText(_)
GetText(content) ==
    IF content = <<>> THEN <<>>
    ELSE (IF IsTextItem(Head(content)) THEN <<Head(content).text>> ELSE <<>>)
         \o GetText(Tail(content))

(***************************************************************************)
(* pkg/tools (not part of the sources at hand): the two constructors of    *)
(* the host's ToolResult that the adapter uses.                            *)
(***************************************************************************)
ErrorResult(text) == [isError |-> TRUE, text |-> text]
NewToolResult(text) == [isError |-> FALSE, text |-> text]

(***************************************************************************)
(* wrapper.go: ToolWrapper.Name and ToolWrapper.Execute's wrapping of what *)
(* CallTool returned.                                                      *)
(***************************************************************************)
McpPrefix == <<"m", "c", "p", "_">>

\* (mutation of Name: the server's name is left out)
NameWithoutServer(server, tool) == McpPrefix \o tool

Name(server, tool) == McpPrefix \o server \o <<"_">> \o tool

\* (mutation of Execute: the error text is returned as a plain result)
ExecuteUntagged(tool, ok, val) == NewToolResult(val)

Execute(tool, ok, val) ==
    IF ~ok THEN ErrorResult(<<"MCP tool">> \o tool \o <<"error:">> \o val)
    ELSE NewToolResult(val)

(***************************************************************************)
(* Locks.                                                                  *)
(***************************************************************************)
\* (mutation of ClientMuFree: c.mu.Lock() that never waits)
ClientMuNeverHeld(c) == TRUE

\* (mutation of ClientMuFree: one lock for all sessions)
AnyClientMuHeld(c) == \A d \in Clients : cmu[d] = NoThread

ClientMuFree(c) == cmu[c] = NoThread
TransportMuFree(c) == tmu[c] = NoThread

\* (mutation of NextRequestID: the counter is advanced twice)
RequestIDAdvancedTwice(c) == requestID[c] + 2

\* (mutation of NextRequestID: the increment is missing)
RequestIDNotAdvanced(c) == requestID[c]

\* c.requestID++
NextRequestID(c) == requestID[c] + 1

\* Client.IsInitialized: atomic.LoadInt64(&c.requestID) > 0
IsInitialized(c) == requestID[c] > 0

\* (mutation of NotInitialized: the gate reads IsInitialized)
GateReadsRequestID(c) == ~IsInitialized(c)

\* (mutation of NotInitialized: the gate is missing)
GateMissing(c) == FALSE

\* the `if !c.initialized` gate of ListTools and CallTool
NotInitialized(c) == ~initialized[c]

\* the `if t.closed` gate of Start, Send, Receive and Close
IsClosed(c) == closed[c]

\* (mutation of ReadErr: io.EOF is not told apart)
ReadErrWithoutEOF(c) == ErrRead

\* stdout.ReadString with nothing left to read: io.EOF once the child has
\* exited, another read error otherwise
ReadErr(c) == IF proc[c] = "exited" THEN ErrEOF ELSE ErrRead

\* stdin.Write: fails once the read end is gone
SendErr(c) ==
    IF IsClosed(c) THEN ErrTransportClosed
    ELSE IF proc[c] \in {"failed", "exited"} THEN ErrWrite
    ELSE NoErr

(***************************************************************************)
(* A Client operation returns: the thread is idle again and ret holds what *)
(* it returned (ok: the error is nil; val: the value, or the error text),  *)
(* together with the frame the operation read, if it read one.  Tool calls *)
(* are made through the adapter, so for CallTool ret.result is what        *)
(* ToolWrapper.Execute returns for it.                                     *)
(***************************************************************************)
ReturnAfter(t, ok, val, f) ==
    LET op == call[t].op IN
    /\ pc' = [pc EXCEPT ![t] = "idle"]
    /\ ret' = [op |-> op, c |-> call[t].c, tool |-> call[t].tool, ok |-> ok, val |-> val,
               result |-> IF op = "CallTool" THEN Execute(call[t].tool, ok, val)
                          ELSE NoToolResult,
               late |-> call[t].late, frame |-> f]
    /\ mres' = IF t = MgrThread THEN ok ELSE mres
    /\ call' = [call EXCEPT ![t] = NoCall]

Return(t, ok, val) == ReturnAfter(t, ok, val, NoFrame)

NoReturn == ret' = NoRet

Unlock(mu, c, t) == [mu EXCEPT ![c] = IF @ = t THEN NoThread ELSE @]


(***************************************************************************)
(* A goroutine calls a Client operation.  `late` records whether a Close   *)
(* of that client had already returned when the call was made.             *)
(***************************************************************************)
Pending(c) ==
    Cardinality({u \in Threads : pc[u] = "start" /\ call[u].c = c
                                   /\ call[u].op \in RequestOps})

Invoke(t, op, c, tool) ==
    /\ pc[t] = "idle"
    /\ op \in RequestOps => requestID[c] + Pending(c) < MaxReq
    /\ pc' = [pc EXCEPT ![t] = "start"]
    /\ call' = [call EXCEPT ![t] = [op |-> op, c |-> c, tool |-> tool,
                                    late |-> closeRet[c], cancelled |-> FALSE]]
    /\ NoReturn
    /\ UNCHANGED <<mres, clientVars, transportVars, childVars, mgrVars, histVars>>

(***************************************************************************)
(* Client.Connect -> STDIOTransport.Start (stdio.go 58-76).  cmd.Start     *)
(* fails when the command cannot be run and when it was started before; a  *)
(* failed cmd.Start closes the pipes.  Whether the command can be run is   *)
(* the descriptor's business (any outcome for a client made directly).     *)
(***************************************************************************)
SpawnOutcomes(c) ==
    IF owner[c] = 0 THEN BOOLEAN ELSE {cfg[owner[c]].exists}

\* (mutation of StartClosedCheck: Start does not look at t.closed)
StartIgnoresClosed(c) == FALSE

\* `if t.closed` of STDIOTransport.Start
StartClosedCheck(c) == IsClosed(c)

Connect(t) ==
    LET c == call[t].c IN
    /\ pc[t] = "start" /\ call[t].op = "Connect"
    /\ TransportMuFree(c)
    /\ \/ /\ StartClosedCheck(c)
          /\ Return(t, FALSE, Wrap("failed to start transport", ErrTransportClosed))
          /\ UNCHANGED proc
       \/ /\ ~StartClosedCheck(c) /\ proc[c] \in {"running", "exited"}
          /\ Return(t, FALSE, Wrap("failed to start transport", ErrAlreadyStarted))
          /\ UNCHANGED proc
       \/ /\ ~StartClosedCheck(c) /\ proc[c] = "failed"
          /\ Return(t, FALSE, Wrap("failed to start transport", ErrSpawn))
          /\ UNCHANGED proc
       \/ /\ ~StartClosedCheck(c) /\ proc[c] = "none"
          /\ \E good \in SpawnOutcomes(c) :
                IF good
                THEN /\ proc' = [proc EXCEPT ![c] = "running"]
                     /\ Return(t, TRUE, NoErr)
                ELSE /\ proc' = [proc EXCEPT ![c] = "failed"]
                     /\ Return(t, FALSE, Wrap("failed to start transport", ErrSpawn))
    /\ UNCHANGED <<clientVars, transportVars, stdinOpen, wire, srvRead, out, notifs,
                   mgrVars, histVars>>

(***************************************************************************)
(* Initialize / ListTools / CallTool / Shutdown up to the Send: c.mu.Lock, *)
(* the initialized gate, c.requestID++.                                    *)
(***************************************************************************)
Begin(t) ==
    LET c == call[t].c
        op == call[t].op IN
    /\ pc[t] = "start" /\ op \in RequestOps
    /\ ClientMuFree(c)
    /\ IF op \in GatedOps /\ NotInitialized(c)
       THEN /\ Return(t, FALSE, ErrNotInitialized)
            /\ UNCHANGED <<requestID, cmu>>
       ELSE IF op = "Shutdown" /\ ~initialized[c]
       THEN /\ Return(t, TRUE, NoErr)
            /\ UNCHANGED <<requestID, cmu>>
       ELSE /\ cmu' = [cmu EXCEPT ![c] = t]
            /\ requestID' = [requestID EXCEPT ![c] = NextRequestID(c)]
            /\ pc' = [pc EXCEPT ![t] = "send"]
            /\ NoReturn
            /\ UNCHANGED <<call, mres>>
    /\ UNCHANGED <<initialized, tools, transportVars, childVars, mgrVars, histVars>>

(***************************************************************************)
(* c.transport.Send(ctx, req) of the request (stdio.go 90-114).  A failed  *)
(* send ends Initialize / ListTools / CallTool; Shutdown only logs it.     *)
(***************************************************************************)
\* (mutation of AfterSend: Shutdown waits for the response too)
AlwaysReceives(op) == "recv"

\* after a Send that worked: Receive, except in Shutdown ("Don't wait for
\* response, just close")
AfterSend(op) == IF op = "Shutdown" THEN "tclose" ELSE "recv"

SendRequest(t) ==
    LET c == call[t].c
        op == call[t].op
        req == Request(requestID[c], MethodOf(op), call[t].tool) IN
    /\ pc[t] = "send"
    /\ TransportMuFree(c)
    /\ IF SendErr(c) = NoErr
       THEN /\ wire' = [wire EXCEPT ![c] = Append(@, req)]
            /\ pc' = [pc EXCEPT ![t] = AfterSend(op)]
            /\ NoReturn
            /\ UNCHANGED <<call, mres, cmu>>
       ELSE IF op = "Shutdown"
       THEN /\ pc' = [pc EXCEPT ![t] = "tclose"]
            /\ NoReturn
            /\ UNCHANGED <<call, mres, cmu, wire>>
       ELSE /\ Return(t, FALSE, Wrap(SendPrefix(op), SendErr(c)))
            /\ cmu' = Unlock(cmu, c, t)
            /\ UNCHANGED wire
    /\ UNCHANGED <<requestID, initialized, tools, transportVars, proc, stdinOpen,
                   srvRead, out, notifs, mgrVars, histVars>>

(***************************************************************************)
(* c.transport.Receive(ctx) (stdio.go 117-141): t.mu is taken, then        *)
(* ReadString blocks with t.mu held until a line or the end of the stream. *)
(***************************************************************************)
ReceiveLock(t) ==
    LET c == call[t].c
        op == call[t].op IN
    /\ pc[t] = "recv"
    /\ TransportMuFree(c)
    /\ IF IsClosed(c)
       THEN /\ Return(t, FALSE, Wrap(ReceivePrefix(op), ErrTransportClosed))
            /\ cmu' = Unlock(cmu, c, t)
            /\ UNCHANGED tmu
       ELSE /\ tmu' = [tmu EXCEPT ![c] = t]
            /\ pc' = [pc EXCEPT ![t] = "reading"]
            /\ NoReturn
            /\ UNCHANGED <<call, mres, cmu>>
    /\ UNCHANGED <<requestID, initialized, tools, closed, childVars, mgrVars, histVars>>

\* fmt.Errorf("... error: %s", resp.Error.Message) of Initialize, ListTools
\* and CallTool
RpcErrorText(op, f) == <<RpcErrorPrefix(op), f.message>>

\* (mutation of Decodes: a frame without a result decodes to the zero value)
DecodesZeroValue(op, f) == TRUE

\* what the operation makes of the frame it read (client 84-94, 140-153, 189-201)
Decodes(op, f) ==
    CASE op = "Initialize" -> f.kind = "result" /\ f.shape = "object"
      [] op = "ListTools" -> f.kind = "result" /\ f.shape = "object"
      [] OTHER -> f.kind = "result"

\* Client.GetTools: the cached list (under c.mu)
GetTools(c) == tools[c]

\* (mutation of SetsInitialized: initialized is set as soon as a frame is read)
SetsInitializedEarly(op, f) == op = "Initialize"

\* Initialize reaches `c.initialized = true` only past the three checks
SetsInitialized(op, f) ==
    op = "Initialize" /\ f.kind \notin {"garbage", "error"} /\ Decodes(op, f)

\* ListTools reaches `c.tools = result.Tools`: the cache is a new array, and
\* the lists handed out before no longer share it
ReplacesCache(op, f) ==
    op = "ListTools" /\ f.kind \notin {"garbage", "error"} /\ Decodes(op, f)

\* (mutation of CacheAfter: a tool call drops the cache)
CacheDroppedByCall(op, c, f) == IF op = "ListTools" THEN f.tools ELSE <<>>

\* (mutation of CacheAfter: the list is appended to the cache)
CacheMerged(op, c, f) == IF op = "ListTools" THEN tools[c] \o f.tools ELSE tools[c]

\* the cache after a successful ListTools (c.tools = result.Tools) or CallTool
CacheAfter(op, c, f) == IF op = "ListTools" THEN f.tools ELSE tools[c]

ResultOf(op, f) ==
    CASE op = "ListTools" -> f.tools
      [] op = "CallTool" -> GetText(UnmarshalJSON(f).Content)
      [] OTHER -> <<>>

ReceiveRead(t) ==
    LET c == call[t].c
        op == call[t].op IN
    /\ pc[t] = "reading"
    /\ out[c] # <<>> \/ proc[c] \in {"failed", "exited"}
    /\ tmu' = Unlock(tmu, c, t)
    /\ alias' = IF out[c] # <<>> /\ ReplacesCache(op, Head(out[c]))
                 THEN [u \in Threads |-> IF alias[u] = c THEN NoClient ELSE alias[u]]
                 ELSE alias
    /\ initialized' = [initialized EXCEPT ![c] =
                           IF out[c] # <<>> /\ SetsInitialized(op, Head(out[c]))
                           THEN TRUE ELSE @]
    /\ handshakes' = IF out[c] # <<>> /\ op = "Initialize" /\ Decodes(op, Head(out[c]))
                      THEN [handshakes EXCEPT ![c] = @ \cup {requestID[c]}]
                      ELSE handshakes
    /\ IF out[c] = <<>>
       THEN /\ Return(t, FALSE, Wrap(ReceivePrefix(op), ReadErr(c)))
            /\ cmu' = Unlock(cmu, c, t)
            /\ UNCHANGED <<out, tools, everInit>>
       ELSE LET f == Head(out[c]) IN
            /\ out' = [out EXCEPT ![c] = Tail(@)]
            /\ IF f.kind = "garbage"
               THEN /\ ReturnAfter(t, FALSE, Wrap(ReceivePrefix(op), ErrUnmarshalResponse), f)
                    /\ cmu' = Unlock(cmu, c, t)
                    /\ UNCHANGED <<tools, everInit>>
               ELSE IF f.kind = "error"
               THEN /\ ReturnAfter(t, FALSE, RpcErrorText(op, f), f)
                    /\ cmu' = Unlock(cmu, c, t)
                    /\ UNCHANGED <<tools, everInit>>
               ELSE IF ~Decodes(op, f)
               THEN /\ ReturnAfter(t, FALSE, Wrap(ResultPrefix(op), ErrUnmarshalResult), f)
                    /\ cmu' = Unlock(cmu, c, t)
                    /\ UNCHANGED <<tools, everInit>>
               ELSE IF op = "Initialize"
               THEN /\ everInit' = [everInit EXCEPT ![c] = TRUE]
                    /\ pc' = [pc EXCEPT ![t] = "notif"]
                    /\ NoReturn
                    /\ UNCHANGED <<call, mres, cmu, tools>>
               ELSE /\ tools' = [tools EXCEPT ![c] = CacheAfter(op, c, f)]
                    /\ ReturnAfter(t, TRUE, ResultOf(op, f), f)
                    /\ cmu' = Unlock(cmu, c, t)
                    /\ UNCHANGED everInit
    /\ UNCHANGED <<requestID, closed, proc, stdinOpen, wire, srvRead, notifs, mgrVars,
                   closeRet, stdinCloses, waits>>

(***************************************************************************)
(* Initialize, after the handshake: send notifications/initialized; a      *)
(* failure is logged only (client 96-108).                                 *)
(***************************************************************************)
SendInitialized(t) ==
    LET c == call[t].c IN
    /\ pc[t] = "notif"
    /\ TransportMuFree(c)
    /\ wire' = [wire EXCEPT ![c] = IF SendErr(c) = NoErr
                                   THEN Append(@, Notification(MethodInitialized))
                                   ELSE @]
    /\ Return(t, TRUE, NoErr)
    /\ cmu' = Unlock(cmu, c, t)
    /\ UNCHANGED <<requestID, initialized, tools, transportVars, proc, stdinOpen,
                   srvRead, out, notifs, mgrVars, histVars>>


(***************************************************************************)
(* Client.Close (client 222-230): clear initialized under c.mu, release    *)
(* c.mu, then close the transport.                                         *)
(***************************************************************************)
Close(t) ==
    LET c == call[t].c IN
    /\ pc[t] = "start" /\ call[t].op = "Close"
    /\ ClientMuFree(c)
    /\ initialized' = [initialized EXCEPT ![c] = FALSE]
    /\ pc' = [pc EXCEPT ![t] = "tclose"]
    /\ NoReturn
    /\ UNCHANGED <<call, mres, requestID, tools, cmu, transportVars, childVars, mgrVars,
                   histVars>>

(***************************************************************************)
(* STDIOTransport.Close (stdio.go 144-181), called by Client.Close and by  *)
(* Client.Shutdown (which still holds c.mu): nothing when already closed;  *)
(* otherwise set closed, close stdin and, when the process was started,    *)
(* wait for it with t.mu held.                                             *)
(***************************************************************************)
CloseReturned(t) ==
    [closeRet EXCEPT ![call[t].c] = @ \/ call[t].op = "Close"]

TransportClose(t) ==
    LET c == call[t].c IN
    /\ pc[t] = "tclose"
    /\ TransportMuFree(c)
    /\ IF IsClosed(c)
       THEN /\ Return(t, TRUE, NoErr)
            /\ cmu' = Unlock(cmu, c, t)
            /\ closeRet' = CloseReturned(t)
            /\ UNCHANGED <<closed, tmu, stdinOpen, stdinCloses>>
       ELSE /\ closed' = [closed EXCEPT ![c] = TRUE]
            /\ stdinOpen' = [stdinOpen EXCEPT ![c] = FALSE]
            /\ stdinCloses' = [stdinCloses EXCEPT ![c] = @ + 1]
            /\ IF proc[c] \in {"running", "exited"}
               THEN /\ tmu' = [tmu EXCEPT ![c] = t]
                    /\ pc' = [pc EXCEPT ![t] = "wait"]
                    /\ NoReturn
                    /\ UNCHANGED <<call, mres, cmu, closeRet>>
               ELSE /\ Return(t, TRUE, NoErr)
                    /\ cmu' = Unlock(cmu, c, t)
                    /\ closeRet' = CloseReturned(t)
                    /\ UNCHANGED tmu
    /\ UNCHANGED <<requestID, initialized, tools, proc, wire, srvRead, out, notifs,
                   mgrVars, everInit, alias, handshakes, waits>>

\* `case err := <-done`: cmd.Wait() returned; there is no other case
\* what cmd.Wait may return: nil, or the child's non-zero exit status
ExitFailure == <<"exit status 1">>
WaitErrors == {NoErr, ExitFailure}

\* (mutation of CloseError: the error of cmd.Wait is returned)
WaitErrorReturned(waitErr) == waitErr

\* the error of cmd.Wait is logged; Close returns nil
CloseError(waitErr) == NoErr

TransportWait(t) ==
    LET c == call[t].c IN
    /\ pc[t] = "wait"
    /\ proc[c] = "exited"
    /\ tmu' = Unlock(tmu, c, t)
    /\ cmu' = Unlock(cmu, c, t)
    /\ \E waitErr \in WaitErrors :
          /\ waits' = [waits EXCEPT ![c] = Append(@, waitErr)]
          /\ Return(t, CloseError(waitErr) = NoErr, CloseError(waitErr))
    /\ closeRet' = CloseReturned(t)
    /\ UNCHANGED <<requestID, initialized, tools, closed, childVars, mgrVars, everInit, alias, handshakes,
                   stdinCloses>>

(***************************************************************************)
(* The child process: it answers the requests it reads from stdin in       *)
(* order, in any of the ways a server may answer; it may write a           *)
(* notification of its own; it may exit (on the end of its stdin, or by    *)
(* itself).  It may also do none of these.                                 *)
(***************************************************************************)
ServerRespond(c) ==
    /\ proc[c] = "running"
    /\ srvRead[c] < Len(wire[c])
    /\ LET req == wire[c][srvRead[c] + 1] IN
       /\ srvRead' = [srvRead EXCEPT ![c] = @ + 1]
       /\ IF req.hasId
          THEN \E f \in Responses(req) : out' = [out EXCEPT ![c] = Append(@, f)]
          ELSE UNCHANGED out
    /\ NoReturn
    /\ UNCHANGED <<clientVars, transportVars, proc, stdinOpen, wire, notifs, threadVars,
                   mgrVars, histVars>>

ServerNotify(c) ==
    /\ proc[c] = "running"
    /\ notifs[c] < MaxNotif
    /\ notifs' = [notifs EXCEPT ![c] = @ + 1]
    /\ out' = [out EXCEPT ![c] = Append(@, NotifFrame)]
    /\ NoReturn
    /\ UNCHANGED <<clientVars, transportVars, proc, stdinOpen, wire, srvRead, threadVars,
                   mgrVars, histVars>>

ServerExit(c) ==
    /\ proc[c] = "running"
    /\ proc' = [proc EXCEPT ![c] = "exited"]
    /\ NoReturn
    /\ UNCHANGED <<clientVars, transportVars, stdinOpen, wire, srvRead, out, notifs,
                   threadVars, mgrVars, histVars>>

(***************************************************************************)
(* One step of a goroutine inside a Client operation.                      *)
(***************************************************************************)
ClientStep(t) ==
    \/ Connect(t)
    \/ Begin(t)
    \/ SendRequest(t)
    \/ ReceiveLock(t)
    \/ ReceiveRead(t)
    \/ SendInitialized(t)
    \/ Close(t)
    \/ TransportClose(t)
    \/ TransportWait(t)

ServerStep(c) ==
    \/ ServerRespond(c)
    \/ ServerNotify(c)
    \/ ServerExit(c)

(***************************************************************************)
(* Spec: one session, made by NewClient (client 27-39), and NumCallers     *)
(* goroutines that call its operations in any order and at any time.       *)
(***************************************************************************)
TheClient == 1

ClientInit ==
    /\ requestID = [c \in Clients |-> 0]
    /\ initialized = [c \in Clients |-> FALSE]
    /\ tools = [c \in Clients |-> <<>>]
    /\ cmu = [c \in Clients |-> NoThread]
    /\ closed = [c \in Clients |-> FALSE]
    /\ tmu = [c \in Clients |-> NoThread]
    /\ proc = [c \in Clients |-> "none"]
    /\ stdinOpen = [c \in Clients |-> TRUE]
    /\ wire = [c \in Clients |-> <<>>]
    /\ srvRead = [c \in Clients |-> 0]
    /\ out = [c \in Clients |-> <<>>]
    /\ notifs = [c \in Clients |-> 0]
    /\ pc = [t \in Threads |-> "idle"]
    /\ call = [t \in Threads |-> NoCall]
    /\ ret = NoRet
    /\ mres = FALSE
    /\ everInit = [c \in Clients |-> FALSE]
    /\ handshakes = [c \in Clients |-> {}]
    /\ alias = [t \in Threads |-> NoClient]
    /\ closeRet = [c \in Clients |-> FALSE]
    /\ stdinCloses = [c \in Clients |-> 0]
    /\ waits = [c \in Clients |-> <<>>]

MgrIdle ==
    /\ cfg = <<>>
    /\ mclients = <<>>
    /\ registered = <<>>
    /\ mmu = "free"
    /\ mpc = "idle"
    /\ midx = 0
    /\ mcur = NoClient
    /\ mops = <<0, 0>>
    /\ mleft = {}
    /\ startEmpty = FALSE
    /\ mbase = 0
    /\ mheld = {}
    /\ mret = "none"

Init ==
    /\ ClientInit
    /\ MgrIdle
    /\ nclients = 1
    /\ owner = [c \in Clients |-> 0]

CallerInvoke(t) ==
    /\ \A u \in Callers : u < t => pc[u] # "idle"
    /\ \E op \in ClientOps :
          \E tool \in (IF op = "CallTool" THEN {ToolA} ELSE {NoTool}) :
             Invoke(t, op, TheClient, tool)

\* The caller's context is cancelled while its operation waits in Receive.
\* Send and Receive take the context and never look at it: nothing else changes.
Cancel(t) ==
    /\ pc[t] = "reading" /\ ~call[t].cancelled
    /\ call' = [call EXCEPT ![t].cancelled = TRUE]
    /\ NoReturn
    /\ UNCHANGED <<pc, mres, clientVars, transportVars, childVars, mgrVars, histVars>>

Next ==
    \/ \E t \in Callers : CallerInvoke(t)
    \/ \E t \in Callers : ClientStep(t)
    \/ \E t \in Callers : Cancel(t)
    \/ ServerStep(TheClient)

Spec == Init /\ [][Next]_vars

(***************************************************************************)
(* OrderlySpec: the session of Spec with a server that keeps to the        *)
(* protocol: it answers every request once, in order, with a result or an  *)
(* error that carries the request's id, may write notifications in         *)
(* between, and exits only once its stdin has been closed.                 *)
(***************************************************************************)
OrderlyRespond(c) ==
    /\ ServerRespond(c)
    /\ \A i \in DOMAIN out'[c] :
          out'[c][i].kind \in {"result", "error", "notif"} /\ out'[c][i].jsonrpc = "2.0"

OrderlyExit(c) == ServerExit(c) /\ ~stdinOpen[c]

OrderlyNext ==
    \/ \E t \in Callers : CallerInvoke(t)
    \/ \E t \in Callers : ClientStep(t)
    \/ OrderlyRespond(TheClient)
    \/ ServerNotify(TheClient)
    \/ OrderlyExit(TheClient)

OrderlySpec == Init /\ [][OrderlyNext]_vars

(***************************************************************************)
(* DecodeSpec: the decoding of a tool call result, applied to every result *)
(* of the three shapes with up to MaxBlocks content blocks.                *)
(***************************************************************************)
MaxBlocks == 3

Blocks == {TextBlock("t1"), TextBlock("t2"), ImageBlock, ResourceBlock}
BlockLists == UNION { [1..n -> Blocks] : n \in 0..MaxBlocks }
DecodeInputs ==
    { Frame("result", 0, "string", <<>>, str, FALSE, "") : str \in {"", "s"} }
    \cup { Frame("result", 0, "array", <<>>, bl, FALSE, "") : bl \in BlockLists }
    \cup { Frame("result", 0, "object", <<>>, bl, e, "") : bl \in BlockLists, e \in BOOLEAN }

\* json.Unmarshal(result, &ToolCallResult) followed by GetText
Decode ==
    /\ \E f \in DecodeInputs :
          ret' = [NoRet EXCEPT !.op = "Decode", !.ok = TRUE,
                               !.val = GetText(UnmarshalJSON(f).Content), !.frame = f]
    /\ UNCHANGED <<clientVars, transportVars, childVars, threadVars, mgrVars, histVars>>

DecodeSpec == Init /\ [][Decode]_vars

(***************************************************************************)
(* EnvSpec: the environment of the child that NewSTDIOTransport and Start  *)
(* spawn.  The descriptor's env is a Go slice, nil when the descriptor has *)
(* no env member; cmd.Env = env hands it to os/exec, whose Cmd takes the   *)
(* environment of the current process when Env is nil and drops all but    *)
(* the last entry of a key.  An entry KEY=VALUE is a record.               *)
(***************************************************************************)
MaxEnv == 2

EnvEntries == {[key |-> "A", value |-> "1"], [key |-> "A", value |-> "2"], [key |-> "HOME", value |-> "/srv"]}
\* a []string: nil, or a slice with its entries
NilEnv == [nil |-> TRUE, list |-> <<>>]
EnvLists ==
    {NilEnv} \cup { [nil |-> FALSE, list |-> l] :
                      l \in UNION { [1..n -> EnvEntries] : n \in 0..MaxEnv } }
\* os.Environ() of the parent process
ParentEnvs ==
    SUBSET {[key |-> "HOME", value |-> "/root"], [key |-> "PATH", value |-> "/bin"], [key |-> "TOKEN", value |-> "s"]}

\* os/exec dedupEnv: of the entries with one key, the last one is kept
dedupEnv(list) ==
    { list[i] : i \in { j \in 1..Len(list) :
                          \A k \in (j + 1)..Len(list) : list[k].key # list[j].key } }

\* exec.Cmd with cmd.Env = env: the environment the child is started with
ChildEnv(env, environ) == IF env.nil THEN environ ELSE dedupEnv(env.list)

\* the entries a descriptor's env lists
Listed(env) == { env.list[i] : i \in 1..Len(env.list) }

\* NewSTDIOTransport(command, args, env) followed by cmd.Start()
SpawnWithEnv ==
    /\ \E env \in EnvLists, environ \in ParentEnvs :
          ret' = [NoRet EXCEPT !.op = "Spawn", !.ok = TRUE, !.tool = env,
                               !.result = environ, !.val = ChildEnv(env, environ)]
    /\ UNCHANGED <<clientVars, transportVars, childVars, threadVars, mgrVars, histVars>>

EnvSpec == Init /\ [][SpawnWithEnv]_vars

(***************************************************************************)
(* CacheSpec: one goroutine that also reads the cache with GetTools and    *)
(* writes to the list it was given.  GetTools returns c.tools itself: the  *)
(* list shares its array with the cache until ListTools replaces it.       *)
(***************************************************************************)
TheCaller == 1
MutatedName == <<"x">>

GetToolsCall(t) ==
    /\ pc[t] = "idle"
    /\ ClientMuFree(TheClient)
    /\ alias' = [alias EXCEPT ![t] = TheClient]
    /\ ret' = [NoRet EXCEPT !.op = "GetTools", !.c = TheClient, !.ok = TRUE,
                            !.val = GetTools(TheClient)]
    /\ UNCHANGED <<clientVars, transportVars, childVars, threadVars, mgrVars, everInit,
                   handshakes, closeRet, stdinCloses, waits>>

\* the caller assigns to element 1 of the list it was given: got[0].Name = "x"
Mutate(t) ==
    /\ pc[t] = "idle"
    /\ alias[t] # NoClient
    /\ Len(tools[alias[t]]) > 0
    /\ tools[alias[t]][1].name # MutatedName
    /\ tools' = [tools EXCEPT ![alias[t]][1].name = MutatedName]
    /\ NoReturn
    /\ UNCHANGED <<requestID, initialized, cmu, transportVars, childVars, threadVars,
                   mgrVars, histVars>>

CacheNext ==
    \/ CallerInvoke(TheCaller)
    \/ ClientStep(TheCaller)
    \/ GetToolsCall(TheCaller)
    \/ Mutate(TheCaller)
    \/ ServerStep(TheClient)

CacheSpec == Init /\ [][CacheNext]_vars

\* the callers' goroutines keep running; the child owes nothing
FairSpec == Spec /\ \A t \in Callers : WF_vars(ClientStep(t))

\* the callers' goroutines keep running and the child exits once its stdin has
\* been closed; it owes nothing else
ExitOnEOFSpec == FairSpec /\ WF_vars(OrderlyExit(TheClient))


(***************************************************************************)
(* Manager (registry.go).  The manager goroutine runs Start and Stop; each *)
(* Client operation they call is run by the same goroutine through         *)
(* ClientStep, and the manager goes on when it has returned.               *)
(***************************************************************************)
MaxServers == 2      \* descriptors in the fleet configuration

\* Server names as character sequences; a descriptor is its name, its enabled
\* flag and whether its command can be run (a disabled one is never run).
ServerNames == { <<"a">>, <<"b">>, <<"a", "_", "b">> }
Descriptors ==
    { d \in [name : ServerNames, enabled : BOOLEAN, exists : BOOLEAN] :
        d.enabled \/ d.exists }
Configs == UNION { [1..n -> Descriptors] : n \in 0..MaxServers }

EmptyMap == <<>>
EnabledIdx == { i \in 1..Len(cfg) : cfg[i].enabled }
HeldClients == { mclients[n] : n \in DOMAIN mclients }

\* Client.GetName
GetName(c) == cfg[owner[c]].name

\* Manager.ListClients and Manager.GetClient (the lookup's second result)
ListClients == DOMAIN mclients
GetClient(n) == n \in DOMAIN mclients

MgrCall(op, c) ==
    /\ pc' = [pc EXCEPT ![MgrThread] = "start"]
    /\ call' = [call EXCEPT ![MgrThread] =
                   [op |-> op, c |-> c, tool |-> NoTool, late |-> closeRet[c],
                    cancelled |-> FALSE]]

MgrReturned == pc[MgrThread] = "idle"

\* Start: m.mu.Lock()
StartBegin ==
    /\ mpc = "idle" /\ mmu = "free"
    /\ mops[1] < MaxStarts
    /\ nclients + Cardinality(EnabledIdx) <= MaxClients
    /\ mmu' = "w"
    /\ mpc' = "loop"
    /\ midx' = 1
    /\ mops' = <<mops[1] + 1, mops[2]>>
    /\ startEmpty' = (DOMAIN mclients = {})
    /\ mbase' = nclients
    /\ mret' = "none"
    /\ NoReturn
    /\ UNCHANGED <<clientVars, transportVars, childVars, threadVars, histVars, cfg,
                   mclients, registered, mcur, nclients, owner, mleft, mheld>>

\* the range loop: on to the next descriptor
NextDescriptor(i) == i + 1

\* (mutation of AfterFailure: a failed server ends the loop)
StopAtFailure(i) == Len(cfg) + 1

\* `continue` after a failed connectServer
AfterFailure(i) == NextDescriptor(i)

\* (mutation of Skipped: no descriptor is skipped)
NoneSkipped(i) == FALSE

\* the `if !serverCfg.Enabled` check of Start's loop
Skipped(i) == ~cfg[i].enabled

\* Start's loop head: the end of the loop (unlock, return nil), a disabled
\* descriptor, or connectServer up to client.Connect (NewClient made the client).
StartLoop ==
    /\ mpc = "loop"
    /\ NoReturn
    /\ IF midx > Len(cfg)
       THEN /\ mmu' = "free"
            /\ mpc' = "idle"
            /\ mret' = "StartOk"
            /\ UNCHANGED <<midx, mcur, nclients, owner, pc, call>>
       ELSE IF Skipped(midx)
       THEN /\ midx' = NextDescriptor(midx)
            /\ UNCHANGED <<mmu, mpc, mret, mcur, nclients, owner, pc, call>>
       ELSE /\ nclients' = nclients + 1
            /\ owner' = [owner EXCEPT ![nclients + 1] = midx]
            /\ mcur' = nclients + 1
            /\ MgrCall("Connect", nclients + 1)
            /\ mpc' = "connect"
            /\ UNCHANGED <<mmu, mret, midx>>
    /\ UNCHANGED <<clientVars, transportVars, childVars, mres, histVars, cfg, mclients,
                   registered, mops, mleft, startEmpty, mbase, mheld>>

\* connectServer after client.Connect: Initialize, or give the server up
AfterConnect ==
    /\ mpc = "connect" /\ MgrReturned
    /\ NoReturn
    /\ IF mres
       THEN /\ MgrCall("Initialize", mcur)
            /\ mpc' = "initialize"
            /\ UNCHANGED <<midx, mcur>>
       ELSE /\ midx' = AfterFailure(midx)
            /\ mpc' = "loop"
            /\ mcur' = NoClient
            /\ UNCHANGED <<pc, call>>
    /\ UNCHANGED <<clientVars, transportVars, childVars, mres, histVars, cfg, mclients,
                   registered, mmu, nclients, owner, mops, mleft, startEmpty, mbase,
                   mheld, mret>>

\* connectServer after client.Initialize: ListTools, or client.Close() and give up
AfterInitialize ==
    /\ mpc = "initialize" /\ MgrReturned
    /\ NoReturn
    /\ IF mres
       THEN /\ MgrCall("ListTools", mcur)
            /\ mpc' = "listtools"
       ELSE /\ MgrCall("Close", mcur)
            /\ mpc' = "closefailed"
    /\ UNCHANGED <<clientVars, transportVars, childVars, mres, histVars, cfg, mclients,
                   registered, mmu, midx, mcur, nclients, owner, mops, mleft, startEmpty,
                   mbase, mheld, mret>>

AfterCloseFailed ==
    /\ mpc = "closefailed" /\ MgrReturned
    /\ NoReturn
    /\ midx' = AfterFailure(midx)
    /\ mpc' = "loop"
    /\ mcur' = NoClient
    /\ UNCHANGED <<clientVars, transportVars, childVars, threadVars, histVars, cfg,
                   mclients, registered, mmu, nclients, owner, mops, mleft, startEmpty,
                   mbase, mheld, mret>>

\* NewToolWrapper
NewToolWrapper(c, tool) == [client |-> c, server |-> GetName(c), tool |-> tool]

\* registerTools: one wrapper per tool of client.GetTools(), in order, each
\* handed to m.registry.Register (registered is the sequence of these calls)
RegisterTools(c) == [i \in 1..Len(tools[c]) |-> NewToolWrapper(c, tools[c][i])]

\* (mutation of ListToolsErrorReturned: the error is returned to Start)
ListToolsErrorPassedOn(ok) == ~ok

\* connectServer: the error of client.ListTools is logged and not returned
ListToolsErrorReturned(ok) == FALSE

\* connectServer after client.ListTools (a failure is only logged), back in
\* Start: m.clients[name] = client and registerTools(client)
AfterListTools ==
    /\ mpc = "listtools" /\ MgrReturned
    /\ ClientMuFree(mcur)
    /\ NoReturn
    /\ mclients' = IF ListToolsErrorReturned(mres) THEN mclients
                   ELSE (GetName(mcur) :> mcur) @@ mclients
    /\ registered' = IF ListToolsErrorReturned(mres) THEN registered
                     ELSE registered \o RegisterTools(mcur)
    /\ midx' = NextDescriptor(midx)
    /\ mpc' = "loop"
    /\ mcur' = NoClient
    /\ UNCHANGED <<clientVars, transportVars, childVars, threadVars, histVars, cfg, mmu,
                   nclients, owner, mops, mleft, startEmpty, mbase, mheld, mret>>

\* Stop: m.mu.Lock()
StopBegin ==
    /\ mpc = "idle" /\ mmu = "free"
    /\ mops[2] < MaxStops
    /\ mmu' = "w"
    /\ mpc' = "stoploop"
    /\ mops' = <<mops[1], mops[2] + 1>>
    /\ mleft' = DOMAIN mclients
    /\ mheld' = HeldClients
    /\ mret' = "none"
    /\ NoReturn
    /\ UNCHANGED <<clientVars, transportVars, childVars, threadVars, histVars, cfg,
                   mclients, registered, midx, mcur, nclients, owner, startEmpty, mbase>>

\* (mutation of ClearedClients: the map is left as it is)
ClientsKept == mclients

\* m.clients = make(map[string]*Client)
ClearedClients == EmptyMap

\* Stop's range loop (in any order): client.Close() of the next entry, or the
\* end of the loop: the map is replaced, m.mu released.
StopLoop ==
    /\ mpc = "stoploop" /\ MgrReturned
    /\ NoReturn
    /\ IF mleft = {}
       THEN /\ mclients' = ClearedClients
            /\ mmu' = "free"
            /\ mpc' = "idle"
            /\ mret' = "StopOk"
            /\ UNCHANGED <<mleft, pc, call>>
       ELSE \E n \in mleft :
               /\ MgrCall("Close", mclients[n])
               /\ mleft' = mleft \ {n}
               /\ UNCHANGED <<mclients, mmu, mpc, mret>>
    /\ UNCHANGED <<clientVars, transportVars, childVars, mres, histVars, cfg, registered,
                   midx, mcur, nclients, owner, mops, startEmpty, mbase, mheld>>

MgrStep ==
    \/ StartBegin
    \/ StartLoop
    \/ AfterConnect
    \/ AfterInitialize
    \/ AfterCloseFailed
    \/ AfterListTools
    \/ StopBegin
    \/ StopLoop

(***************************************************************************)
(* FleetSpec: a manager made by NewManager over any configuration, its     *)
(* goroutine calling Start and Stop in any order, and the children.        *)
(***************************************************************************)
FleetInit ==
    /\ ClientInit
    /\ cfg \in Configs
    /\ mclients = EmptyMap
    /\ registered = <<>>
    /\ mmu = "free"
    /\ mpc = "idle"
    /\ midx = 0
    /\ mcur = NoClient
    /\ mops = <<0, 0>>
    /\ mleft = {}
    /\ startEmpty = FALSE
    /\ mbase = 0
    /\ mheld = {}
    /\ mret = "none"
    /\ nclients = 0
    /\ owner = [c \in Clients |-> 0]

FleetNext ==
    \/ MgrStep
    \/ ClientStep(MgrThread)
    \/ \E c \in 1..nclients : ServerStep(c)

FleetSpec == FleetInit /\ [][FleetNext]_vars

\* the manager goroutine keeps running; the children owe nothing
FairFleetSpec ==
    FleetSpec /\ WF_vars(MgrStep) /\ WF_vars(ClientStep(MgrThread))

(***************************************************************************)
(* ServeSpec: a manager over two enabled servers, its goroutine calling    *)
(* Start and then Stop, and NumCallers goroutines of the host that call    *)
(* Execute on the adapters the registry was handed, at any time once Start *)
(* has returned: before Stop, during it, after it, and call ListClients at *)
(* any time.  The servers answer, stay silent or exit; they write no       *)
(* notifications.                                                          *)
(***************************************************************************)
ServeConfigs ==
    { <<[name |-> <<"a">>, enabled |-> TRUE, exists |-> TRUE],
        [name |-> <<"b">>, enabled |-> TRUE, exists |-> TRUE]>> }

ServeInit == FleetInit /\ cfg \in ServeConfigs

\* ToolWrapper.Execute: w.client.CallTool(ctx, w.tool.Name, args)
ExecuteInvoke(t) ==
    /\ mops[1] > 0 /\ mpc \in {"idle", "stoploop"}
    /\ \A u \in Callers : u < t => pc[u] # "idle"
    /\ \E i \in DOMAIN registered :
          Invoke(t, "CallTool", registered[i].client, registered[i].tool.name)

\* (mutation of RLockFree: the readers take no lock)
RLockNotTaken == TRUE

\* m.mu.RLock() of GetClient and ListClients: waits while Start or Stop holds m.mu
RLockFree == mmu = "free"

\* Manager.ListClients (and GetClient, for every name) called by the host: the
\* names read under the read lock
ListClientsCall ==
    /\ RLockFree
    /\ ret' = [NoRet EXCEPT !.op = "ListClients", !.ok = TRUE, !.val = ListClients]
    /\ UNCHANGED <<clientVars, transportVars, childVars, threadVars, mgrVars, histVars>>

\* the host stops the fleet once
StopOnce == StopBegin /\ mops[2] = 0

ServeNext ==
    \/ StartBegin
    \/ StartLoop
    \/ AfterConnect
    \/ AfterInitialize
    \/ AfterCloseFailed
    \/ AfterListTools
    \/ StopOnce
    \/ StopLoop
    \/ ClientStep(MgrThread)
    \/ \E c \in 1..nclients : ServerRespond(c)
    \/ \E c \in 1..nclients : ServerExit(c)
    \/ \E t \in Callers : ExecuteInvoke(t)
    \/ \E t \in Callers : ClientStep(t)
    \/ ListClientsCall

ServeSpec == ServeInit /\ [][ServeNext]_vars

(***************************************************************************)
(*                      Properties of one session                          *)
(***************************************************************************)
RequestFrames(c) == { i \in 1..Len(wire[c]) : wire[c][i].hasId }
InFlight(c) == { t \in Threads : call[t].c = c /\ pc[t] \in {"recv", "reading"} }

\* C1: within one session the ids of the request frames written to the child
\* are pairwise distinct and strictly increasing in wire order, whatever the
\* interleaving of the callers of Initialize, ListTools, CallTool and Shutdown.
C1_RequestIdsStrictlyIncreasing ==
    \A c \in Clients : \A i, j \in RequestFrames(c) :
        i < j => wire[c][i].id < wire[c][j].id

\* C1 witness: three request frames from three different operations are on the wire.
C1_Witness ==
    \E i, j, k \in RequestFrames(TheClient) :
        /\ i < j /\ j < k
        /\ wire[TheClient][i].method = MethodInitialize
        /\ wire[TheClient][j].method = MethodCallTool
        /\ wire[TheClient][k].method = MethodShutdown

\* C2: ListTools and CallTool on a session that has not completed a successful
\* Initialize fail with the not-initialized error, and no tools/list or
\* tools/call frame is on the wire of a session that never reached Initialized.
C2_NoToolRequestBeforeInitialized ==
    /\ \A c \in Clients :
          (\E i \in 1..Len(wire[c]) : wire[c][i].method \in {MethodListTools, MethodCallTool})
              => everInit[c]
    /\ (ret.op \in GatedOps /\ ~everInit[ret.c])
          => (~ret.ok /\ ret.val = ErrNotInitialized /\ ret.frame = NoFrame)

\* C2 witness: a CallTool has just failed on a session whose initialize request
\* was written but whose handshake never completed.
C2_Witness ==
    /\ ret.op = "CallTool" /\ ~ret.ok
    /\ ~everInit[TheClient]
    /\ Len(wire[TheClient]) > 0

\* C3 as stated: once a Close has returned, no operation called later on the
\* session returns success.
C3_NoSuccessAfterClose ==
    ret.late => ~ret.ok

\* C3: once a Close has returned on a session, every Connect, Initialize,
\* ListTools and CallTool called later fails and the transport stays closed.
C3_ClosedIsAbsorbing ==
    /\ \A c \in Clients : closeRet[c] => closed[c]
    /\ (ret.late /\ ret.op \in {"Connect", "Initialize", "ListTools", "CallTool"})
          => ~ret.ok

\* C3 witness: a CallTool called after Close returned on a session that had been
\* initialized has just failed.
C3_Witness ==
    /\ ret.op = "CallTool" /\ ret.late /\ ~ret.ok
    /\ everInit[TheClient]

\* C4: a Close called after a Close has returned succeeds and changes nothing:
\* no second close of stdin, no second wait, the session's state as it was.
SessionState(c) ==
    <<requestID[c], initialized[c], tools[c], closed[c], proc[c], stdinOpen[c],
      wire[c], out[c], stdinCloses[c], waits[c]>>

SecondCloseStep(t, c) ==
    /\ call[t].op = "Close" /\ call[t].c = c /\ call[t].late
    /\ pc'[t] # pc[t]

C4_SecondCloseIsNoOp ==
    [][\A t \in Threads : \A c \in Clients :
          SecondCloseStep(t, c) =>
              /\ SessionState(c)' = SessionState(c)
              /\ pc'[t] = "idle" => ret'.ok]_vars

\* C5: at most one request of a session is in flight: no operation writes its
\* request while another operation on the session is between its send and the
\* end of its receive.
C5_HalfDuplex ==
    \A c \in Clients : Cardinality(InFlight(c)) <= 1

\* C5 witness: one caller is blocked reading its response while another caller
\* of the same session has called CallTool and waits for the session mutex.
C5_Witness ==
    \E t, u \in Callers :
        /\ t # u
        /\ pc[t] = "reading" /\ call[t].op = "CallTool"
        /\ pc[u] = "start" /\ call[u].op = "CallTool"
        /\ initialized[TheClient]

(***************************************************************************)
(*                        Properties of the fleet                          *)
(***************************************************************************)
UniqueNames == \A i, j \in EnabledIdx : i # j => cfg[i].name # cfg[j].name

\* the clients this Start made for descriptor i
Attempt(i) == { c \in (mbase + 1)..nclients : owner[c] = i }
SpawnFailures == { i \in EnabledIdx : ~cfg[i].exists }
Survivors == { i \in EnabledIdx : \E c \in Attempt(i) : everInit[c] }
WrappersOf(c) == SelectSeq(registered, LAMBDA w : w.client = c)

StartReturned == mret = "StartOk" /\ startEmpty /\ UniqueNames

\* C6 as stated: after Start on N enabled descriptors with unique names of which
\* k fail to spawn, exactly N-k sessions are held.
C6_HeldAllButSpawnFailures ==
    StartReturned =>
        Cardinality(HeldClients) = Cardinality(EnabledIdx) - Cardinality(SpawnFailures)

\* C6: after Start on N enabled descriptors with unique names, every descriptor
\* was attempted; with k the number of servers that failed to spawn or to
\* complete Initialize, exactly N-k sessions are held, ListClients is exactly
\* the names of the other servers, and the adapters registered for each of these
\* are those of its own tool list, whatever the failing servers did.
C6_FailuresAreIsolated ==
    StartReturned =>
        /\ \A i \in EnabledIdx : Attempt(i) # {}
        /\ ListClients = { cfg[i].name : i \in Survivors }
        /\ Cardinality(HeldClients) =
               Cardinality(EnabledIdx) - Cardinality(EnabledIdx \ Survivors)
        /\ \A i \in Survivors :
              /\ mclients[cfg[i].name] \in Attempt(i)
              /\ WrappersOf(mclients[cfg[i].name])
                    = RegisterTools(mclients[cfg[i].name])

\* C6 witness: Start has returned on two enabled servers; the first was spawned
\* and failed to initialize, the second is held with its two tools registered.
C6_Witness ==
    /\ StartReturned
    /\ EnabledIdx = {1, 2}
    /\ cfg[1].exists /\ 1 \notin Survivors
    /\ 2 \in Survivors
    /\ Len(WrappersOf(mclients[cfg[2].name])) = 2

StartRunning == mpc \in {"loop", "connect", "initialize", "closefailed", "listtools"}

\* C7: Start always completes: once called it eventually returns (success),
\* whatever the configured servers do.
C7_StartAlwaysReturns == StartRunning ~> (mret = "StartOk")

\* C8: after Stop returns ListClients is empty, GetClient reports absent for
\* every name and every session that was held is closed; a Stop on a manager
\* that holds no session (a second Stop) returns having changed nothing.
C8_AfterStop ==
    mret = "StopOk" =>
        /\ ListClients = {}
        /\ \A n \in ServerNames : ~GetClient(n)
        /\ \A c \in mheld : closed[c] /\ ~initialized[c]

C8_SecondStopStep ==
    (mpc = "stoploop" /\ mheld = {} /\ mpc' # mpc) =>
        /\ mret' = "StopOk"
        /\ UNCHANGED <<clientVars, transportVars, childVars, mclients, registered>>

C8_StopClosesAndClears == []C8_AfterStop /\ [][C8_SecondStopStep]_vars

\* C8 witness: the second of two Stops after a Start has returned; the session
\* the Start had made is closed.
C8_Witness ==
    /\ mret = "StopOk" /\ mops = <<1, 2>> /\ mheld = {}
    /\ \E c \in 1..nclients : everInit[c] /\ closed[c]

IsPrefix(p, q) == Len(p) <= Len(q) /\ SubSeq(q, 1, Len(p)) = p

\* ToolWrapper.Name of a registered adapter
ExposedName(w) == Name(w.server, w.tool.name)

DistinctPairsDistinctNames ==
    \A i, j \in DOMAIN registered :
        <<registered[i].server, registered[i].tool.name>>
              # <<registered[j].server, registered[j].tool.name>>
           => ExposedName(registered[i]) # ExposedName(registered[j])

NoNameExtends ==
    \A i, j \in EnabledIdx : ~IsPrefix(cfg[i].name \o <<"_">>, cfg[j].name)

C10_IsErrorGivesErrorResult ==
    (ret.op = "CallTool" /\ ret.ok /\ ret.frame.kind = "result" /\ ret.frame.isError)
        => (ret.result.isError /\ ret.result.text = GetText(UnmarshalJSON(ret.frame).Content))


(***************************************************************************)
(*                    Errors, handshake, close, cache                      *)
(***************************************************************************)
Contains(s, x) == \E i \in DOMAIN s : s[i] = x

\* C11: when the server answers tools/call with an error object that has a data
\* member, the error CallTool returns and the error-tagged result of the adapter
\* contain both the error message and the rendered data.
C11_ErrorDataSurfaced ==
    (ret.op = "CallTool" /\ ret.frame.kind = "error" /\ ret.frame.data # "")
        => /\ ~ret.ok
           /\ \A x \in {ret.frame.message, ret.frame.data} :
                 Contains(ret.val, x) /\ Contains(ret.result.text, x)
           /\ ret.result.isError

\* C12: for every outcome of CallTool, Execute returns a tool result: the
\* concatenated text of the result on success, and on an RPC error or a
\* transport error an error-tagged result carrying "MCP tool {name} error: {err}".
C12_ExecuteAlwaysReturnsResult ==
    ret.op = "CallTool" =>
        /\ ret.ok => /\ ret.frame.kind = "result"
                     /\ ret.result.text = GetText(UnmarshalJSON(ret.frame).Content)
        /\ ~ret.ok => /\ ret.result.isError
                      /\ ret.result.text
                            = <<"MCP tool">> \o ret.tool \o <<"error:">> \o ret.val

\* C12 witness: a CallTool on an initialized session whose child had exited has
\* failed in the transport, and Execute has returned the error-tagged result.
C12_Witness ==
    /\ ret.op = "CallTool" /\ ~ret.ok /\ ret.frame = NoFrame
    /\ initialized[ret.c] /\ ~closed[ret.c]
    /\ ret.result.isError /\ Contains(ret.result.text, "MCP server closed connection")

\* C13: when initialize is answered with a result the session becomes
\* Initialized, and the next frame the client writes is the notification
\* notifications/initialized, without id: it is written only after the response
\* has been read, directly after the initialize request, and before any later
\* request of the session.
C13_HandshakeOrder ==
    /\ \A t \in Threads : pc[t] = "notif" => initialized[call[t].c]
    /\ \A c \in Clients : \A i \in DOMAIN wire[c] :
          /\ wire[c][i].method = MethodInitialized =>
                /\ ~wire[c][i].hasId
                /\ i > 1
                /\ wire[c][i - 1].method = MethodInitialize
                /\ wire[c][i - 1].id \in handshakes[c]
          /\ (/\ wire[c][i].method = MethodInitialize
              /\ wire[c][i].id \in handshakes[c]
              /\ i < Len(wire[c]))
                => wire[c][i + 1] = Notification(MethodInitialized)

\* C13 witness: the session has written initialize, then the notification, then
\* a tools request.
C13_Witness ==
    \E i \in DOMAIN wire[TheClient] :
        /\ i + 2 \in DOMAIN wire[TheClient]
        /\ wire[TheClient][i].method = MethodInitialize
        /\ wire[TheClient][i].id \in handshakes[TheClient]
        /\ wire[TheClient][i + 1].method = MethodInitialized
        /\ wire[TheClient][i + 2].method \in {MethodListTools, MethodCallTool}

HasInitializedFrame(c) == \E i \in DOMAIN wire[c] : wire[c][i].method = MethodInitialized

\* C14: a failed Initialize on a session that was never initialized leaves it
\* so: it is not initialized afterwards, no notifications/initialized frame has
\* been written, and ListTools and CallTool still fail as not initialized.
C14_FailedInitializeStaysStarted ==
    /\ (ret.op = "Initialize" /\ ~ret.ok /\ ~everInit[ret.c])
          => ~initialized[ret.c] /\ ~HasInitializedFrame(ret.c)
    /\ (ret.op \in GatedOps /\ ~everInit[ret.c])
          => ~ret.ok /\ ret.val = ErrNotInitialized /\ ~HasInitializedFrame(ret.c)

\* C14 witness: on a running session whose initialize request was written and
\* whose Initialize failed, a ListTools or CallTool has failed as not initialized.
C14_Witness ==
    /\ ret.op \in GatedOps /\ ret.val = ErrNotInitialized
    /\ ~everInit[ret.c]
    /\ proc[ret.c] = "running" /\ ~closed[ret.c]
    /\ \E i \in DOMAIN wire[ret.c] : wire[ret.c][i].method = MethodInitialize
    /\ \A t \in Threads : call[t].op # "Initialize"

\* C15: if the caller's cancellation signal fires while Initialize, ListTools or
\* CallTool waits for the response, the operation eventually returns (with a
\* Cancelled error), even if the server never writes another frame.
C15_CancelledReturns ==
    \A t \in Callers :
        (pc[t] = "reading" /\ call[t].cancelled /\ call[t].op \in RoundTripOps)
            ~> (pc[t] = "idle")

\* C16: Close terminates with a bounded wait: after closing the child's stdin
\* it eventually returns even if the child never exits on its own.
C16_CloseReturns ==
    \A t \in Callers : (pc[t] = "wait" /\ call[t].op = "Close") ~> (pc[t] = "idle")

\* C17: Close on a session whose child was started closes the child's stdin
\* first and only then waits for the child; it does not return before the child
\* has been waited on, and it returns success whatever the exit status.
C17_OrderlyClose ==
    /\ \A t \in Threads :
          pc[t] = "wait" => closed[call[t].c] /\ ~stdinOpen[call[t].c]
    /\ \A c \in Clients : waits[c] # <<>> => ~stdinOpen[c]
    /\ ret.op = "Close" =>
          /\ ret.ok
          /\ proc[ret.c] \in {"running", "exited"} =>
                /\ proc[ret.c] = "exited"
                /\ Len(waits[ret.c]) = 1
                /\ ~stdinOpen[ret.c]

\* C17 witness: Close has returned success on a started session whose child
\* exited with a non-zero status.
C17_Witness ==
    /\ ret.op = "Close" /\ ret.ok /\ ~ret.late
    /\ waits[ret.c] = <<ExitFailure>>
    /\ stdinCloses[ret.c] = 1

\* C18: after Close has returned, the cached tool list returned by GetTools is
\* empty, whatever it held before.
C18_CloseClearsCache ==
    \A c \in Clients : (closeRet[c] /\ ClientMuFree(c)) => GetTools(c) = <<>>

\* C19: GetTools returns a defensive copy: changing an element of the returned
\* list does not change the session's cache.
C19_GetToolsReturnsCopy ==
    [][\A t \in Callers : Mutate(t) => GetTools(TheClient)' = GetTools(TheClient)]_vars

\* C20: the cache of a session changes only through a successful ListTools:
\* Initialize, CallTool, Shutdown, Close, a failed ListTools and the frames the
\* server sends (its notifications included) leave it unchanged.
C20_CacheChangesOnlyByListTools ==
    [][\A c \in Clients :
          tools'[c] # tools[c] =>
              ret'.op = "ListTools" /\ ret'.ok /\ ret'.c = c]_vars

\* C20 witness: with a tool list cached, a CallTool has read a notification the
\* server sent, and the cache is as it was.
C20_Witness ==
    /\ ret.op = "CallTool" /\ ret.frame = NotifFrame
    /\ tools[ret.c] # <<>>

(***************************************************************************)
(*        Decoding, frames, environment, flags, fleet concurrency          *)
(***************************************************************************)
\* the text of exactly the blocks of type text, in order
TextOfBlocks(blocks) ==
    LET sel == SelectSeq(blocks, LAMBDA b : b.type = "text")
    IN  [i \in 1..Len(sel) |-> sel[i].text]

\* C21: for every result given as a bare string, an array of content blocks or
\* an object with a content array, decoding succeeds and GetText is the
\* concatenation, in order, of the text of exactly the blocks of type text;
\* other blocks contribute nothing and empty content yields the empty text.
C21_DecodingPermissiveInOrder ==
    ret.op = "Decode" =>
        /\ ret.ok
        /\ ret.val = IF ret.frame.shape = "string" THEN <<ret.frame.content>>
                     ELSE TextOfBlocks(ret.frame.content)

\* C21 witness: an array result with a text, an image and a text block has been
\* decoded to the two texts in order.
C21_Witness ==
    /\ ret.op = "Decode" /\ ret.frame.shape = "array"
    /\ ret.frame.content = <<TextBlock("t2"), ImageBlock, TextBlock("t1")>>
    /\ ret.val = <<"t2", "t1">>

\* C22: an inbound frame whose jsonrpc member is missing or different from
\* "2.0" is rejected: the operation that read it fails and returns no result.
C22_WrongVersionRejected ==
    (ret.op \in RoundTripOps /\ ret.frame.kind \in {"result", "error"}
        /\ ret.frame.jsonrpc # "2.0")
        => ~ret.ok

\* C23: the environment of a spawned child is exactly the env list of its
\* descriptor; no variable of the parent environment is visible to the child
\* unless it is listed in env, also when env is empty or absent.
C23_ChildEnvIsDescriptorEnv ==
    ret.op = "Spawn" => ret.val \subseteq Listed(ret.tool)

\* C24: IsInitialized is true exactly when a successful Initialize has completed
\* and the session has not since been closed: it agrees with the flag that gates
\* ListTools and CallTool, so it is false after a failed Initialize and after
\* Close (read while no operation holds the session's lock).
C24_IsInitializedAgreesWithFlag ==
    \A c \in Clients : ClientMuFree(c) => (IsInitialized(c) <=> initialized[c])

\* C25: sessions are independent: once the fleet has started, a CallTool that no
\* other goroutine shares its session with can always take its next step, unless
\* it waits for a frame of its own server: no CallTool blocked on another session
\* and no holder of the fleet lock stops it from sending and completing.
Alone(u) == \A v \in Threads \ {u} : call[v].c # call[u].c
WaitsForServer(u) == pc[u] = "reading" /\ ~ENABLED ReceiveRead(u)

C25_SessionsIndependent ==
    \A u \in Callers :
        (pc[u] # "idle" /\ Alone(u) /\ ~WaitsForServer(u)) => ENABLED ClientStep(u)

\* C25 witness: a CallTool on one session has returned its result while a
\* CallTool on another session is blocked, its request written and not answered.
C25_Witness ==
    /\ ret.op = "CallTool" /\ ret.ok
    /\ \E t \in Callers :
          /\ WaitsForServer(t) /\ call[t].op = "CallTool" /\ call[t].c # ret.c
          /\ wire[call[t].c][Len(wire[call[t].c])].method = MethodCallTool

\* C26: an adapter used after Stop has closed its session fails: Execute
\* returns at the gate of CallTool, with an error-tagged tool result, and writes
\* no frame to any child.
C26_ExecuteAfterStopFails ==
    [][\A t \in Callers :
          (call[t].op = "CallTool" /\ call[t].late /\ pc'[t] # pc[t])
              => /\ pc'[t] = "idle"
                 /\ ret'.op = "CallTool" /\ ~ret'.ok /\ ret'.result.isError
                 /\ wire' = wire]_vars

\* C26 witness: Start registered an adapter, Stop has returned, and an Execute
\* called after the session's Close has returned its error-tagged result.
C26_Witness ==
    /\ mret = "StopOk" /\ mops = <<1, 1>>
    /\ ret.op = "CallTool" /\ ret.late /\ ret.result.isError
    /\ ret.val = ErrNotInitialized
    /\ \E i \in DOMAIN registered : registered[i].client = ret.c

\* C27: when a receive hits EOF because the child has exited, the operation in
\* flight (Initialize, ListTools or CallTool) fails with the closed-connection
\* error, and the session is closed for good: every ListTools and CallTool that
\* returns from then on fails.
Dead(c) == proc[c] = "exited" /\ out[c] = <<>>

C28_PeersStartRegardless ==
    \A i \in 1..MaxServers :
        (StartRunning /\ i <= Len(cfg) /\ cfg[i].enabled) ~> (Attempt(i) # {})

\* C29: a disabled descriptor is skipped at fleet start: no client is made and
\* no child spawned for it, no session of it is held, no adapter is registered
\* for it, and its name (unique within the fleet) is not among ListClients.
OwnedBy(i) == { c \in 1..nclients : owner[c] = i }
NameIsUnique(i) == \A j \in 1..Len(cfg) : j # i => cfg[j].name # cfg[i].name

C29_DisabledAreSkipped ==
    \A i \in 1..Len(cfg) :
        ~cfg[i].enabled =>
            /\ OwnedBy(i) = {}
            /\ \A n \in ListClients : owner[mclients[n]] # i
            /\ \A k \in DOMAIN registered : owner[registered[k].client] # i
            /\ NameIsUnique(i) =>
                  /\ cfg[i].name \notin ListClients
                  /\ \A k \in DOMAIN registered : registered[k].server # cfg[i].name

\* C29 witness: Start has returned on a fleet of a disabled descriptor followed
\* by an enabled one of another name: only the second is held, with its adapters.
C29_Witness ==
    /\ mret = "StartOk" /\ Len(cfg) = 2
    /\ ~cfg[1].enabled /\ cfg[2].enabled /\ cfg[1].name # cfg[2].name
    /\ ListClients = {cfg[2].name}
    /\ nclients = 1 /\ proc[1] = "running"
    /\ registered # <<>>

\* C30: a notification the server writes between a request and its response is
\* read as if it were the response, and the operation that read it fails: it
\* returns an error and no result.
C30_NotificationFailsOperation ==
    (ret.op \in RoundTripOps /\ ret.frame.kind = "notif")
        => /\ ~ret.ok
           /\ ret.val = Wrap(ResultPrefix(ret.op), ErrUnmarshalResult)
           /\ ret.op = "CallTool" => ret.result.isError

\* C30 witness: a ListTools on an initialized session has failed on the
\* notification it read; the result for its request is the next frame to read.
C30_Witness ==
    /\ ret.op = "ListTools" /\ ~ret.ok /\ ret.frame = NotifFrame
    /\ initialized[ret.c]
    /\ out[ret.c] # <<>>
    /\ Head(out[ret.c]).kind = "result" /\ Head(out[ret.c]).id = requestID[ret.c]

(***************************************************************************)
(*         Shutdown, fleet readers, correlation, leaks, counters           *)
(***************************************************************************)
ShutdownStep(t) == call[t].op = "Shutdown" /\ pc'[t] # pc[t]
ShutdownRequest(c) == Request(requestID[c], MethodShutdown, NoTool)
FreshId(c) == \A i \in RequestFrames(c) : wire[c][i].id < requestID[c]

\* C31 as stated: Shutdown on an initialized session writes exactly one shutdown
\* request with a fresh id, whatever the state of the child and the transport.
C31_ShutdownAlwaysWrites ==
    [][\A t \in Threads :
          (ShutdownStep(t) /\ pc[t] = "send")
              => wire'[call[t].c] = Append(wire[call[t].c], ShutdownRequest(call[t].c))]_vars

\* C31: Shutdown never reads a frame.  On a session that is not initialized it
\* returns success at once and changes nothing.  On an initialized session it
\* takes a fresh id and sends once: when the send works (transport open, child
\* alive) exactly one shutdown request with that id is written, when it fails
\* nothing is written; in both cases it goes on to close the transport.
C31_ShutdownFireAndForget ==
    [][\A t \in Threads : \A c \in Clients :
          (ShutdownStep(t) /\ call[t].c = c) =>
              /\ out' = out
              /\ pc'[t] \notin {"recv", "reading"}
              /\ (pc[t] = "start" /\ ~initialized[c])
                    => /\ pc'[t] = "idle" /\ ret'.ok
                       /\ SessionState(c)' = SessionState(c)
              /\ pc[t] = "send"
                    => /\ FreshId(c)
                       /\ pc'[t] = "tclose"
                       /\ wire'[c] = IF SendErr(c) = NoErr
                                     THEN Append(wire[c], ShutdownRequest(c))
                                     ELSE wire[c]
              /\ pc[t] # "send" => wire' = wire]_vars

\* C31 witness: Shutdown has returned on a session whose last frame on the wire
\* is its shutdown request, with a frame of the child still unread.
C31_Witness ==
    /\ ret.op = "Shutdown" /\ ret.ok
    /\ wire[ret.c] # <<>>
    /\ wire[ret.c][Len(wire[ret.c])] = ShutdownRequest(ret.c)
    /\ out[ret.c] # <<>>
    /\ closed[ret.c]

\* C32: ListClients returns exactly the names of the active sessions: whenever
\* it can run (the manager's lock is not write-held), every name it returns is
\* that of a session that completed Initialize, is not closed and whose child
\* has not died.
C32_ListedAreActive ==
    mmu = "free" =>
        \A n \in ListClients :
            /\ everInit[mclients[n]]
            /\ ~closed[mclients[n]]
            /\ proc[mclients[n]] = "running"

\* C33: with a server that answers every request once, in order and with the
\* request's id, notifications in between or not, every ListTools or CallTool
\* that returns successfully returns the result of the response whose id is the
\* id of the request it sent.
C33_ResponseMatchesRequest ==
    (ret.op \in GatedOps /\ ret.ok) => ret.frame.id = requestID[ret.c]

\* C34: the manager leaks no child: when Stop has returned, every child process
\* the manager spawned has had its transport closed, also when descriptors share
\* a name.
Spawned(c) == proc[c] \in {"running", "exited"}

C34_NoChildLeaked ==
    mret = "StopOk" => \A c \in 1..nclients : Spawned(c) => closed[c]

\* C35: the request counter of a session starts at 0 and counts the correlated
\* request attempts: it advances by one when an Initialize begins and when a
\* ListTools, CallTool or Shutdown begins on an initialized session, and at no
\* other step (not for a call rejected as not initialized, not for the
\* notification); a request written to the child carries the counter's value,
\* so the first attempt carries id 1.
RequestAttempt(t, c) ==
    /\ pc[t] = "start" /\ pc'[t] # "start" /\ call[t].c = c
    /\ \/ call[t].op = "Initialize"
       \/ call[t].op \in {"ListTools", "CallTool", "Shutdown"} /\ initialized[c]

C35_CounterCountsAttempts ==
    /\ \A c \in Clients : requestID[c] = 0
    /\ [][\A c \in Clients :
             /\ requestID'[c] = IF \E t \in Threads : RequestAttempt(t, c)
                                THEN requestID[c] + 1 ELSE requestID[c]
             /\ (wire'[c] # wire[c] /\ wire'[c][Len(wire'[c])].hasId)
                   => wire'[c][Len(wire'[c])].id = requestID[c]]_vars

\* C35 witness: the first Initialize took id 1 and failed, and the ListTools or
\* CallTool that followed was rejected as not initialized: the counter is 1.
C35_Witness ==
    /\ ret.op \in GatedOps /\ ret.val = ErrNotInitialized
    /\ requestID[ret.c] = 1
    /\ wire[ret.c] # <<>> /\ wire[ret.c][1].id = 1
    /\ \A t \in Threads : pc[t] = "idle"

\* C36: Start and Stop are atomic for the fleet's readers: a GetClient or
\* ListClients never runs while a Start or a Stop is under way, so what it
\* returns is the session set from before the whole operation or from after it,
\* and the set changes only under the write lock.
C36_ReadersSeeWholeOperations ==
    /\ [](ret.op = "ListClients" => (mpc = "idle" /\ ret.val = ListClients))
    /\ [][mclients' # mclients => (mmu = "w" /\ mpc # "idle")]_vars

\* C36 witness: ListClients has returned both sessions of the fleet, after Start
\* and before Stop.
C36_Witness ==
    /\ ret.op = "ListClients" /\ ret.val = {<<"a">>, <<"b">>}
    /\ mops = <<1, 0>>

\* C37: Close can interrupt a request in flight: when Close has been called
\* while a CallTool on the session waits for a response the server never sends,
\* Close eventually returns and the CallTool eventually fails, given that the
\* child exits once its stdin is closed.
C37_CloseInterruptsCallTool ==
    \A t, u \in Callers :
        (call[t].op = "Close" /\ pc[t] = "start"
            /\ call[u].op = "CallTool" /\ pc[u] = "reading")
        ~> (pc[t] = "idle" /\ pc[u] = "idle")

\* C38: a successful ListTools replaces the cache with exactly the tool list of
\* its response and returns that list; a ListTools that fails, at whatever
\* step, leaves the cache as it was.
ListToolsStep(t) == call[t].op = "ListTools" /\ pc'[t] # pc[t]

C38_ListToolsReplacesCache ==
    /\ []((ret.op = "ListTools" /\ ret.ok)
             => (tools[ret.c] = ret.frame.tools /\ ret.val = ret.frame.tools))
    /\ [][\A t \in Threads :
             (ListToolsStep(t) /\ ~(pc'[t] = "idle" /\ ret'.ok)) => tools' = tools]_vars

\* C38 witness: the second ListTools of a session, answered with one tool, has
\* returned and the cache is that one-tool list.
C38_Witness ==
    /\ ret.op = "ListTools" /\ ret.ok /\ ret.frame.id = 3
    /\ Len(wire[ret.c]) = 4
    /\ wire[ret.c][3].method = MethodListTools /\ wire[ret.c][4].method = MethodListTools
    /\ tools[ret.c] = <<MCPTool(ToolA)>>

\* C39: during Start a server whose Connect and Initialize succeed and whose
\* ListTools fails is kept: it is stored under its name, listed, and no adapter
\* is registered for it.  Only a failed Connect or Initialize discards the
\* session, and a session discarded after a failed Initialize has been closed.
C39_AfterStart ==
    StartReturned =>
        \A c \in (mbase + 1)..nclients :
            /\ everInit[c] <=> (GetName(c) \in ListClients /\ mclients[GetName(c)] = c)
            /\ (~everInit[c] /\ Spawned(c)) => closed[c]
            /\ Len(WrappersOf(c)) = Len(tools[c])

C39_ListToolsFailureStep ==
    (mpc = "listtools" /\ mpc' # mpc /\ ~mres) =>
        /\ mclients' = (GetName(mcur) :> mcur) @@ mclients
        /\ registered' = registered
        /\ tools[mcur] = <<>>

C39_ListToolsFailureKeepsSession == []C39_AfterStart /\ [][C39_ListToolsFailureStep]_vars

\* C39 witness: Start has returned holding a session whose child exited after
\* the handshake: its ListTools took id 2 and failed in Send, and it has no
\* adapter.
C39_Witness ==
    /\ StartReturned
    /\ \E c \in HeldClients :
          /\ everInit[c] /\ requestID[c] = 2 /\ proc[c] = "exited"
          /\ \A i \in DOMAIN wire[c] : wire[c][i].method # MethodListTools
          /\ WrappersOf(c) = <<>>

=============================================================================
